---- MODULE Spec2Model ----
(***************************************************************************)
(* ISAAC pseudorandom generator of coreutils (src/src/rand-isaac.c):       *)
(* the seeding protocol, the refill engine, the single-word stream and the *)
(* uniform sampler, with uint32_t arithmetic kept at its width.            *)
(***************************************************************************)
EXTENDS Integers, Naturals, Sequences, FiniteSets, TLC

\* ------------------------------------------------------------------------
\* uint32_t arithmetic.  An integer of TLC has 31 value bits, so a
\* uint32_t is held as its two 16-bit halves <<hi, lo>>, value hi * 2^16 + lo.
\* A pair whose hi is 2^16 or more is a wider natural (up to 2^47), used for
\* 2^32 itself and for counts of 32-bit words.
\* ------------------------------------------------------------------------

\* Number of values of half a uint32_t (2^16).
HALF_RANGE == 65536

\* Number of values of an unsigned char (2^CHAR_BIT).
UCHAR_RANGE == 256

\* sizeof (uint32_t)
SIZEOF_UINT32 == 4

Pow2(k) == 2 ^ k

\* Always true of an array or a struct v.  As a guard it makes the evaluation
\* of v come before what follows, the way one C statement completes before
\* the next starts.
Evaluated(v) == DOMAIN v = DOMAIN v

\* Bit-by-bit exclusive or and bit-by-bit and of two unsigned chars.
XorBits(x, y) ==
    ((x + y) % 2)
  + (((x \div 2) + (y \div 2)) % 2) * 2
  + (((x \div 4) + (y \div 4)) % 2) * 4
  + (((x \div 8) + (y \div 8)) % 2) * 8
  + (((x \div 16) + (y \div 16)) % 2) * 16
  + (((x \div 32) + (y \div 32)) % 2) * 32
  + (((x \div 64) + (y \div 64)) % 2) * 64
  + (((x \div 128) + (y \div 128)) % 2) * 128
AndBits(x, y) ==
    ((x % 2) * (y % 2))
  + (((x \div 2) % 2) * ((y \div 2) % 2)) * 2
  + (((x \div 4) % 2) * ((y \div 4) % 2)) * 4
  + (((x \div 8) % 2) * ((y \div 8) % 2)) * 8
  + (((x \div 16) % 2) * ((y \div 16) % 2)) * 16
  + (((x \div 32) % 2) * ((y \div 32) % 2)) * 32
  + (((x \div 64) % 2) * ((y \div 64) % 2)) * 64
  + (((x \div 128) % 2) * ((y \div 128) % 2)) * 128

\* Exclusive or of two unsigned chars, tabulated once.
XorByteTable ==
  [i \in 1..(UCHAR_RANGE * UCHAR_RANGE) |->
     XorBits((i - 1) \div UCHAR_RANGE, (i - 1) % UCHAR_RANGE)] \o <<>>

XorByte(x, y) == XorByteTable[x * UCHAR_RANGE + y + 1]

\* And of two unsigned chars, tabulated once.
AndByteTable ==
  [i \in 1..(UCHAR_RANGE * UCHAR_RANGE) |->
     AndBits((i - 1) \div UCHAR_RANGE, (i - 1) % UCHAR_RANGE)] \o <<>>

AndByte(x, y) == AndByteTable[x * UCHAR_RANGE + y + 1]

\* And of two 16-bit halves.
AndHalf(x, y) ==
  AndByte(x \div UCHAR_RANGE, y \div UCHAR_RANGE) * UCHAR_RANGE
  + AndByte(x % UCHAR_RANGE, y % UCHAR_RANGE)

\* Exclusive or of two 16-bit halves.
XorHalf(x, y) ==
  XorByte(x \div UCHAR_RANGE, y \div UCHAR_RANGE) * UCHAR_RANGE
  + XorByte(x % UCHAR_RANGE, y % UCHAR_RANGE)

\* The uint32_t of value n, for a natural n below 2^31.
U32(n) == <<n \div HALF_RANGE, n % HALF_RANGE>>

Zero32 == <<0, 0>>
Max32  == <<HALF_RANGE - 1, HALF_RANGE - 1>>

\* 2^32 as a wide natural.
Two32 == <<HALF_RANGE, 0>>

IsU32(x) == x[1] \in 0..(HALF_RANGE - 1) /\ x[2] \in 0..(HALF_RANGE - 1)

\* Wide naturals: comparison, sum, difference (x >= y).
WLt(x, y) == x[1] < y[1] \/ (x[1] = y[1] /\ x[2] < y[2])
WLe(x, y) == ~WLt(y, x)
WAdd(x, y) ==
  <<x[1] + y[1] + (x[2] + y[2]) \div HALF_RANGE, (x[2] + y[2]) % HALF_RANGE>>
WSub(x, y) ==
  IF x[2] >= y[2] THEN <<x[1] - y[1], x[2] - y[2]>>
  ELSE <<x[1] - y[1] - 1, x[2] + HALF_RANGE - y[2]>>

\* Bit i of the wide natural x (i in 0..32).
WBit(x, i) ==
  IF i >= 16 THEN (x[1] \div Pow2(i - 16)) % 2 ELSE (x[2] \div Pow2(i)) % 2

\* One step of long division in base 2 by m, on c = [q, r] with r < m: the
\* next bit of the dividend is brought down.
WDivStep(c, r2, m) ==
  IF WLe(m, r2) THEN [q |-> WAdd(WAdd(c.q, c.q), <<0, 1>>), r |-> WSub(r2, m)]
  ELSE [q |-> WAdd(c.q, c.q), r |-> r2]

RECURSIVE WDivBits(_, _, _, _, _)
\* Long division over the bits hi, hi - 1, ..., lo of x (hi >= lo).
WDivBits(c, x, m, hi, lo) ==
  IF hi = lo THEN WDivStep(c, WAdd(WAdd(c.r, c.r), <<0, WBit(x, hi)>>), m)
  ELSE CHOOSE v \in { WDivBits(u, x, m, lo + (hi - lo + 1) \div 2 - 1, lo) :
                        u \in { WDivBits(c, x, m, hi, lo + (hi - lo + 1) \div 2) } } :
         TRUE

\* Quotient and remainder of the wide natural x <= 2^32 by m > 0.
WDivMod(x, m) == WDivBits([q |-> Zero32, r |-> Zero32], x, m, 32, 0)

\* Reduction of a wide natural modulo 2^32: what a uint32_t keeps of it.
Wrap32(x) == <<x[1] % HALF_RANGE, x[2]>>

\* The C operators on uint32_t operands.
Xor32(x, y) == <<XorHalf(x[1], y[1]), XorHalf(x[2], y[2])>>
And32(x, y) == <<AndHalf(x[1], y[1]), AndHalf(x[2], y[2])>>
Add32(x, y) == Wrap32(WAdd(x, y))
Neg32(x)    == Wrap32(WSub(Two32, x))
Lt32(x, y)  == WLt(x, y)
Mod32(x, n) == WDivMod(x, n).r
Shl32(x, k) ==
  IF k >= 16 THEN <<(x[2] * Pow2(k - 16)) % HALF_RANGE, 0>>
  ELSE <<(x[1] * Pow2(k) + (x[2] * Pow2(k)) \div HALF_RANGE) % HALF_RANGE,
         (x[2] * Pow2(k)) % HALF_RANGE>>
Shr32(x, k) ==
  IF k >= 16 THEN <<0, x[1] \div Pow2(k - 16)>>
  ELSE <<x[1] \div Pow2(k),
         (x[2] \div Pow2(k)) + (x[1] % Pow2(k)) * Pow2(16 - k)>>

\* ------------------------------------------------------------------------
\* Sizes of the state tables
\* ------------------------------------------------------------------------

ISAAC_LOG   == 8
ISAAC_WORDS == Pow2(ISAAC_LOG)
ISAAC_BYTES == ISAAC_WORDS * SIZEOF_UINT32

WordIx == 0..(ISAAC_WORDS - 1)

\* An array of ISAAC_WORDS words, all zero (memset (mm, 0, sizeof mm)).
ZeroWords == [j \in WordIx |-> Zero32] @@ <<>>

\* ------------------------------------------------------------------------
\* The seed-scrambling step (Bob Jenkins' 256-bit hash), on <<a,...,h>>
\* ------------------------------------------------------------------------

\* The registers v = <<a, ..., h>> after one row of the mix macro, for the
\* register at position i and its successors at q, r, s; p1 is the new value
\* of the register at i:   p ^= ...,  s += p,  q += r.
mix_row_set(v, i, q, r, s, p1) ==
  [v EXCEPT ![i] = p1, ![s] = Add32(v[s], p1), ![q] = Add32(v[q], v[r])]

\* One row of the mix macro: p ^= q << k (or q >> k), s += p, q += r, for
\* the register p at position i and its successors q, r, s (cyclically).
mix_row(v, i, left, k) ==
  mix_row_set(v, i, (i % 8) + 1, ((i + 1) % 8) + 1, ((i + 2) % 8) + 1,
              Xor32(v[i], IF left THEN Shl32(v[(i % 8) + 1], k)
                                  ELSE Shr32(v[(i % 8) + 1], k)))

\* The macro mix (a, b, c, d, e, f, g, h): its eight rows in order.
mix(v) ==
  mix_row(mix_row(mix_row(mix_row(mix_row(mix_row(mix_row(mix_row(
    v, 1, TRUE, 11), 2, FALSE, 2), 3, TRUE, 8), 4, FALSE, 16),
       5, TRUE, 10), 6, FALSE, 4), 7, TRUE, 8), 8, FALSE, 9)

\* The end of one loop iteration of isaac_mix: the registers w are stored in
\* mm[i .. i + 7] and stay in a..h for the next iteration.
isaac_mix_store(w, mm, i) ==
  [mm |-> [mm EXCEPT ![i] = w[1], ![i + 1] = w[2], ![i + 2] = w[3],
                     ![i + 3] = w[4], ![i + 4] = w[5], ![i + 5] = w[6],
                     ![i + 6] = w[7], ![i + 7] = w[8]],
   iv |-> w]

\* One loop iteration of isaac_mix, for the group of words at i, on
\* c = [mm, iv] where iv holds a..h: the seed words are added, the registers
\* mixed and stored.
isaac_mix_group(c, seed, i) ==
  isaac_mix_store(
    mix(<<Add32(c.iv[1], seed[i]),     Add32(c.iv[2], seed[i + 1]),
          Add32(c.iv[3], seed[i + 2]), Add32(c.iv[4], seed[i + 3]),
          Add32(c.iv[5], seed[i + 4]), Add32(c.iv[6], seed[i + 5]),
          Add32(c.iv[7], seed[i + 6]), Add32(c.iv[8], seed[i + 7])>>),
    c.mm, i)

RECURSIVE isaac_mix_from(_, _, _, _)
\* The loop iterations of isaac_mix for the groups at i, i + 8, ..., below n,
\* in that order (i < n).  The range is halved rather than peeled so that the
\* evaluation stays shallow.  When seed is the mm of the state at entry, as
\* in every call of the program, an iteration reads the same words as the
\* code does: the earlier iterations wrote only below i.
isaac_mix_from(c, seed, i, n) ==
  IF n - i = 8 THEN isaac_mix_group(c, seed, i)
  ELSE LET k == i + ((n - i) \div 16) * 8
           u == isaac_mix_from(c, seed, i, k)
       IN  IF Evaluated(u) THEN isaac_mix_from(u, seed, k, n) ELSE u

\* s with the mm and the iv that the loop of isaac_mix leaves.
isaac_mix_exit(s, res) == [s EXCEPT !.mm = res.mm, !.iv = res.iv]

\* The basic ISAAC initialization pass: s with mm and iv rewritten.
isaac_mix(s, seed) ==
  isaac_mix_exit(s, isaac_mix_from([mm |-> s.mm, iv |-> s.iv], seed, 0, ISAAC_WORDS))

\* isaac_mix (s, s->mm)
isaac_mix_self(s) == IF Evaluated(s) THEN isaac_mix(s, s.mm) ELSE s

\* ------------------------------------------------------------------------
\* The refill engine
\* ------------------------------------------------------------------------

\* The index operation with the mask ISAAC_BYTES - 1: the low bits of x are
\* kept as a byte offset.
ind_offset_bytes(x) == And32(x, U32(ISAAC_BYTES - 1))[2]

\* The index operation that takes the low ISAAC_LOG bits of x for the word
\* index.
ind_offset_low(x) == (x[2] % ISAAC_WORDS) * SIZEOF_UINT32

\* Byte offset into mm that the index operation ind (mm, x) addresses:
\* (x) & (ISAAC_WORDS - 1) * sizeof (uint32_t).
ind_offset(x) == And32(x, U32((ISAAC_WORDS - 1) * SIZEOF_UINT32))[2]

\* The uint32_t read at byte offset off of the array mm.  An offset that is
\* no whole word of the array has no defined value; zero stands for it.
word_at(mm, off) ==
  IF off % SIZEOF_UINT32 = 0 /\ (off \div SIZEOF_UINT32) \in DOMAIN mm
  THEN mm[off \div SIZEOF_UINT32]
  ELSE Zero32

ind(mm, x) == word_at(mm, ind_offset(x))

\* The step that mixes in a << 13 at every word.
step_mix_left(a, i) == Shl32(a, 13)

\* The shift of a that the step at word i mixes in: the four steps of one
\* loop iteration use a << 13, a >> 6, a << 2, a >> 16.
step_mix(a, i) ==
  CASE i % 4 = 0 -> Shl32(a, 13)
    [] i % 4 = 1 -> Shr32(a, 6)
    [] i % 4 = 2 -> Shl32(a, 2)
    [] OTHER     -> Shr32(a, 16)

\* Offset from word i to its partner: + ISAAC_WORDS / 2 in the first loop,
\* - ISAAC_WORDS / 2 in the second.
step_off(i) == IF i < ISAAC_WORDS \div 2 THEN ISAAC_WORDS \div 2 ELSE 0 - (ISAAC_WORDS \div 2)

\* The central step at word i, on the working values w = [mm, a, b, r, acc];
\* acc collects the byte offsets of mm that the steps read or write.
\* Last line of the macro:  *(r) = b = ind (mm, (y) >> ISAAC_LOG) + x.
isaac_step_b(w, i, a1, x, y, m1, b1) ==
  [mm  |-> m1,
   a   |-> a1,
   b   |-> b1,
   r   |-> [w.r EXCEPT ![i] = b1],
   acc |-> w.acc \cup { i * SIZEOF_UINT32,
                        (i + step_off(i)) * SIZEOF_UINT32,
                        ind_offset(x),
                        ind_offset(Shr32(y, ISAAC_LOG)) }]

\* *(m) = y, then the last line on the array so written.
isaac_step_m(w, i, a1, x, y, m1) ==
  isaac_step_b(w, i, a1, x, y, m1, Add32(ind(m1, Shr32(y, ISAAC_LOG)), x))

\* Third line of the macro:  *(m) = y = ind (mm, x) + (a) + (b).
isaac_step_y(w, i, a1, x, y) ==
  isaac_step_m(w, i, a1, x, y, [w.mm EXCEPT ![i] = y])

\* Second line of the macro:  x = *(m).
isaac_step_x(w, i, a1, x) ==
  isaac_step_y(w, i, a1, x, Add32(Add32(ind(w.mm, x), a1), w.b))

\* First line of the macro:  a = ((a) ^ (mix)) + (m)[off].
isaac_step(w, i) ==
  isaac_step_x(w, i,
               Add32(Xor32(w.a, step_mix(w.a, i)), w.mm[i + step_off(i)]),
               w.mm[i])

RECURSIVE isaac_steps(_, _, _)
\* The steps at words i, i + 1, ..., n - 1, in that order (n - i a power of
\* 4): each quarter of the range is completed (the test u = u evaluates u)
\* before the next one starts.  The range is split rather than peeled so that
\* the evaluation stays shallow.
isaac_steps(w, i, n) ==
  IF n - i = 1 THEN isaac_step(w, i)
  ELSE LET q  == (n - i) \div 4
           u1 == isaac_steps(w, i, i + q)
           u2 == isaac_steps(u1, i + q, i + 2 * q)
           u3 == isaac_steps(u2, i + 2 * q, i + 3 * q)
       IN  IF u1.a = u1.a /\ u2.a = u2.a /\ u3.a = u3.a
           THEN isaac_steps(u3, i + 3 * q, n)
           ELSE w

\* The working values of isaac_refill at entry: a = s->a, b = s->b + (++s->c).
refill_enter(s, r) ==
  [mm |-> s.mm, a |-> s.a, b |-> Add32(s.b, Add32(s.c, U32(1))), r |-> r, acc |-> {}]

\* The end of isaac_refill: s->a = a, s->b = b; mm and r were written by the
\* steps, c at entry.
refill_exit(s, w) ==
  [s   |-> [s EXCEPT !.mm = w.mm, !.a = w.a, !.b = w.b, !.c = Add32(s.c, U32(1))],
   r   |-> w.r,
   acc |-> w.acc]

\* Refill the entire r array, and update s: [s, r, acc].
isaac_refill(s, r) ==
  refill_exit(s, isaac_steps(refill_enter(s, r), 0, ISAAC_WORDS))

\* isaac_refill as the sequence of its statements.  A call in progress is a
\* frame [at, i, a, b, c]: at is "idle" (no call), "loaded" (a = s->a is done
\* and s->c is read for ++s->c), "steps" (the step at word i is next) or
\* "store" (the loops are done); a and b are the caches of a and b, c is the
\* value read from s->c.
refill_idle == [at |-> "idle", i |-> 0, a |-> Zero32, b |-> Zero32, c |-> Zero32]

\* a = s->a, and the read of s->c in "++s->c".
refill_load(s) == [at |-> "loaded", i |-> 0, a |-> s.a, b |-> Zero32, c |-> s.c]

\* "++s->c" that stores the value read back unchanged.
refill_count_same(s, f) ==
  [s |-> [s EXCEPT !.c = f.c],
   f |-> [f EXCEPT !.at = "steps", !.b = Add32(s.b, f.c)]]

\* The store of "++s->c" and b = s->b + (the new c): the state and the frame.
refill_count(s, f) ==
  [s |-> [s EXCEPT !.c = Add32(f.c, U32(1))],
   f |-> [f EXCEPT !.at = "steps", !.b = Add32(s.b, Add32(f.c, U32(1))),
                   !.c = Add32(f.c, U32(1))]]

\* The frame and the arrays after the step at word f.i, given the working
\* values u that isaac_step left.  The second loop ends after the last word.
refill_step_done(s, f, u) ==
  [s |-> [s EXCEPT !.mm = u.mm],
   r |-> u.r,
   f |-> [f EXCEPT !.a = u.a, !.b = u.b, !.i = f.i + 1,
                   !.at = IF f.i + 1 < ISAAC_WORDS THEN "steps" ELSE "store"]]

\* One isaac_step of the loops of isaac_refill, at word f.i, on the state s
\* and the output array r: [s, r, f].
refill_step(s, r, f) ==
  refill_step_done(s, f, isaac_step([mm |-> s.mm, a |-> f.a, b |-> f.b,
                                     r |-> r, acc |-> {}], f.i))

\* s->a = a;  s->b = b.
refill_store(s, f) == [s EXCEPT !.a = f.a, !.b = f.b]

\* ------------------------------------------------------------------------
\* Seeding
\* ------------------------------------------------------------------------

\* The seeding initial vector.
iv ==
  << <<\H1367, \Hdf5a>>, <<\H95d9, \H0059>>, <<\Hc316, \H3e4b>>, <<\H0f42, \H1ad8>>,
     <<\Hd92a, \H4a78>>, <<\Ha51a, \H3c49>>, <<\Hc4ef, \Hea1b>>, <<\H3060, \H9119>> >>

\* isaac_seed_start without the memset of mm.
isaac_seed_start_no_memset(s) ==
  [s EXCEPT !.iv = iv, !.a = Zero32, !.b = Zero32, !.c = Zero32]

\* Start seeding an ISAAC structure: every field of s is set.
isaac_seed_start(s) ==
  [mm |-> ZeroWords, iv |-> iv, a |-> Zero32, b |-> Zero32, c |-> Zero32]

\* Place in its word of the byte at byte offset off of mm: 0 for the least
\* significant byte.  The C code addresses mm as unsigned chars, so the place
\* is the platform's byte order.
byte_place(off, endian) ==
  IF endian = "little" THEN off % SIZEOF_UINT32
  ELSE SIZEOF_UINT32 - 1 - (off % SIZEOF_UINT32)

\* The word w with the unsigned char byte XORed into its byte at place k.
xor_into_word(w, k, byte) ==
  IF k = 0 THEN <<w[1], XorHalf(w[2], byte)>>
  ELSE IF k = 1 THEN <<w[1], XorHalf(w[2], byte * UCHAR_RANGE)>>
  ELSE IF k = 2 THEN <<XorHalf(w[1], byte), w[2]>>
  ELSE <<XorHalf(w[1], byte * UCHAR_RANGE), w[2]>>

\* p[i] ^= buf[i] for the byte at offset off of mm.  A write past the end of
\* the array has no defined effect; mm unchanged stands for it.
xor_byte(mm, off, byte, endian) ==
  IF (off \div SIZEOF_UINT32) \in DOMAIN mm
  THEN [mm EXCEPT ![off \div SIZEOF_UINT32] =
                    xor_into_word(@, byte_place(off, endian), byte)]
  ELSE mm

RECURSIVE xor_bytes(_, _, _, _, _, _)
\* for (i = 0; i < n; i++) p[i] ^= buf[i], with p at byte offset off of mm
\* and buf[0] the element from + 1 of the sequence buf.  The range is halved
\* so that the evaluation stays shallow: the first half is completed (u)
\* before the second half starts.
xor_bytes(mm, off, buf, from, n, endian) ==
  IF n = 0 THEN mm
  ELSE IF n = 1 THEN xor_byte(mm, off, buf[from + 1], endian)
  ELSE CHOOSE m2 \in { xor_bytes(u, off + n \div 2, buf, from + n \div 2,
                                 n - n \div 2, endian) :
                         u \in { xor_bytes(mm, off, buf, from, n \div 2, endian) } } :
         TRUE

\* The value of a uint32_t as a natural (for the values below 2^31).
ToNat(x) == x[1] * HALF_RANGE + x[2]

RECURSIVE seed_data_loop(_, _, _, _, _, _)

\* One iteration of the loop "while (size > avail)" once the avail bytes are
\* XORed in (m1):  isaac_mix (s, s->mm);  s->c = 0;  avail = sizeof s->mm.
seed_data_full(s, m1, buf, from, size, avail, endian) ==
  LET s2 == [isaac_mix([s EXCEPT !.mm = m1], m1) EXCEPT !.c = Zero32]
  IN  seed_data_loop(s2, buf, from + avail, size - avail, ISAAC_BYTES, endian)

\* The loop "while (size > avail)" of isaac_seed_data and the final partial
\* block: from is the number of bytes of buf already consumed.
seed_data_loop(s, buf, from, size, avail, endian) ==
  IF ~Evaluated(s) THEN s
  ELSE IF size > avail
  THEN seed_data_full(s, xor_bytes(s.mm, ToNat(s.c), buf, from, avail, endian),
                      buf, from, size, avail, endian)
  ELSE [s EXCEPT !.mm = xor_bytes(s.mm, ToNat(s.c), buf, from, size, endian),
                 !.c  = U32(size)]

\* The one pass of an isaac_seed_data without its loop.
seed_data_passes_once(c, size, avail) == << [off |-> c, n |-> size] >>

RECURSIVE seed_data_passes(_, _, _)
\* The XOR passes "for (i = 0; i < n; i++) p[i] ^= buf[i]" that one
\* isaac_seed_data call makes, in order, for the cursor c, the buffer size
\* and the space avail: each pass with the byte offset of p in mm and its
\* number of bytes.  The passes of the loop take avail bytes and leave the
\* cursor at 0; the final partial block takes the rest.
seed_data_passes(c, size, avail) ==
  IF size > avail
  THEN << [off |-> c, n |-> avail] >> \o seed_data_passes(0, size - avail, ISAAC_BYTES)
  ELSE << [off |-> c, n |-> size] >>

\* isaac_seed_data without its loop "while (size > avail)": the whole buffer
\* is taken for a final partial block.
isaac_seed_data_no_loop(s, buf, size, endian) ==
  [s EXCEPT !.mm = xor_bytes(s.mm, ToNat(s.c), buf, 0, size, endian),
            !.c  = U32(size)]

\* Add a buffer of seed material: the first size bytes of buf.
isaac_seed_data(s, buf, size, endian) ==
  seed_data_loop(s, buf, 0, size, ISAAC_BYTES - ToNat(s.c), endian)

\* isaac_seed_finish with one mixing pass only.
isaac_seed_finish_once(s) == [isaac_mix_self(s) EXCEPT !.c = Zero32]

\* End of seeding phase: two mixing passes, then c = 0.
isaac_seed_finish(s) ==
  [isaac_mix_self(isaac_mix_self(s)) EXCEPT !.c = Zero32]

\* ------------------------------------------------------------------------
\* Getting seed material: the control flow of isaac_seed
\* ------------------------------------------------------------------------

\* Sizes of the objects that isaac_seed accumulates, and of its device reads.
SIZEOF_PID == 4
SIZEOF_UID == 4
SIZEOF_GID == 4
SIZEOF_XTIME == 8
URANDOM_BYTES == 32
RANDOM_BYTES == 16

\* Number of bytes that isaac_seed accumulates at the position at.
isaac_seed_size(at) ==
  CASE at = "pid"     -> SIZEOF_PID
    [] at = "ppid"    -> SIZEOF_PID
    [] at = "uid"     -> SIZEOF_UID
    [] at = "gid"     -> SIZEOF_GID
    [] at = "time"    -> SIZEOF_XTIME
    [] at = "urandom" -> URANDOM_BYTES
    [] at = "random"  -> RANDOM_BYTES
    [] OTHER          -> 0

\* isaac_seed that gives up the devices when the first open fails.
isaac_seed_next_no_fallback(at, ok) ==
  CASE at = "entry"        -> "pid"
    [] at = "pid"          -> "ppid"
    [] at = "ppid"         -> "uid"
    [] at = "uid"          -> "gid"
    [] at = "gid"          -> "time"
    [] at = "time"         -> "open_urandom"
    [] at = "open_urandom" -> IF ok THEN "urandom" ELSE "finish"
    [] at = "urandom"      -> "finish"
    [] at = "open_random"  -> IF ok THEN "random" ELSE "finish"
    [] at = "random"       -> "finish"
    [] OTHER               -> "done"

\* The statement of isaac_seed that follows the one at the position at; ok
\* is the test fd >= 0 of an open.
isaac_seed_next(at, ok) ==
  CASE at = "entry"        -> "pid"
    [] at = "pid"          -> "ppid"
    [] at = "ppid"         -> "uid"
    [] at = "uid"          -> "gid"
    [] at = "gid"          -> "time"
    [] at = "time"         -> "open_urandom"
    [] at = "open_urandom" -> IF ok THEN "urandom" ELSE "open_random"
    [] at = "urandom"      -> "finish"
    [] at = "open_random"  -> IF ok THEN "random" ELSE "finish"
    [] at = "random"       -> "finish"
    [] OTHER               -> "done"

\* ------------------------------------------------------------------------
\* Single-word RNG built on top of ISAAC
\* ------------------------------------------------------------------------

\* irand_init: numleft and s are set; the array r is left as it was.
irand_init(r, g) == [r EXCEPT !.numleft = 0, !.s = g]

\* The body of "if (!r->numleft)" in irand32, given what isaac_refill
\* returned (f): the stream r and the state s after it.
irand32_filled(r, f) ==
  [r |-> [r EXCEPT !.r = f.r, !.numleft = ISAAC_WORDS],
   s |-> f.s, acc |-> f.acc, refilled |-> TRUE]

\* irand32 that takes the words of the block from its head.
irand32_take_head(d) ==
  [r        |-> [d.r EXCEPT !.numleft = d.r.numleft - 1],
   s        |-> d.s,
   x        |-> word_at(d.r.r, (ISAAC_WORDS - d.r.numleft) * SIZEOF_UINT32),
   acc      |-> d.acc,
   refilled |-> d.refilled]

\* return r->r[--r->numleft], on d = [r, s, acc, refilled]; numleft is
\* at least 1 here.
irand32_take(d) ==
  [r        |-> [d.r EXCEPT !.numleft = d.r.numleft - 1],
   s        |-> d.s,
   x        |-> word_at(d.r.r, (d.r.numleft - 1) * SIZEOF_UINT32),
   acc      |-> d.acc,
   refilled |-> d.refilled]

\* irand32 refilling as soon as at most one word is left.
irand32_early(r, s) ==
  irand32_take(IF r.numleft <= 1
               THEN irand32_filled(r, isaac_refill(s, r.r))
               ELSE [r |-> r, s |-> s, acc |-> {}, refilled |-> FALSE])

\* irand32 that refills at every call.
irand32_always(r, s) ==
  irand32_take(irand32_filled(r, isaac_refill(s, r.r)))

\* irand32 on the stream r whose state is s: the stream and the state after
\* the call, the word returned (x), whether isaac_refill ran and the byte
\* offsets of mm it touched.
irand32(r, s) ==
  irand32_take(IF r.numleft = 0
               THEN irand32_filled(r, isaac_refill(s, r.r))
               ELSE [r |-> r, s |-> s, acc |-> {}, refilled |-> FALSE])

\* ++n in irand_mod: 0 when the full range was requested.
irand_mod_range(n) == Add32(n, U32(1))

\* The threshold taken as -n, without the reduction.
irand_mod_lim_no_mod(n1) == Neg32(n1)

\* The threshold taken as UINT32_MAX % n.
irand_mod_lim_max(n1) == Mod32(Max32, n1)

\* lim = -n % n in irand_mod, for the incremented n (not 0).
irand_mod_lim(n1) == Mod32(Neg32(n1), n1)

\* The loop condition taken as always true.
irand_mod_rejects_all(x, lim) == TRUE

\* The loop condition taken as x <= lim.
irand_mod_rejects_le(x, lim) == WLe(x, lim)

\* The loop condition "while (x < lim)": the word x is drawn again.
irand_mod_rejects(x, lim) == Lt32(x, lim)

\* return x % n, for the incremented n.
irand_mod_reduce(x, n1) == Mod32(x, n1)

RECURSIVE irand_mod_loop(_, _, _, _, _)

\* The test "while (x < lim)" after the draw d: draw again, or return x % n.
\* xs lists the words drawn by this call so far, fills counts its refills.
irand_mod_test(d, n1, lim, xs, fills) ==
  IF irand_mod_rejects(d.x, lim)
  THEN irand_mod_loop([r |-> d.r, s |-> d.s, acc |-> d.acc], n1, lim,
                      Append(xs, d.x), fills + (IF d.refilled THEN 1 ELSE 0))
  ELSE [r |-> d.r, s |-> d.s, acc |-> d.acc, val |-> irand_mod_reduce(d.x, n1),
        xs |-> Append(xs, d.x), fills |-> fills + (IF d.refilled THEN 1 ELSE 0),
        lim |-> lim]

\* do x = irand32 (r); while (x < lim);  return x % n.
irand_mod_loop(c, n1, lim, xs, fills) ==
  irand_mod_test([irand32(c.r, c.s) EXCEPT !.acc = @ \cup c.acc], n1, lim, xs, fills)

\* The full-range return with the word cut to 31 bits.
irand_mod_full_31(d) ==
  [r |-> d.r, s |-> d.s, acc |-> d.acc, val |-> And32(d.x, <<\H7fff, \Hffff>>),
   xs |-> <<d.x>>, fills |-> IF d.refilled THEN 1 ELSE 0, lim |-> Zero32]

\* The return of irand32 (r) unmodified, for n + 1 = 0.
irand_mod_full(d) ==
  [r |-> d.r, s |-> d.s, acc |-> d.acc, val |-> d.x, xs |-> <<d.x>>,
   fills |-> IF d.refilled THEN 1 ELSE 0, lim |-> Zero32]

\* The entry of irand_mod (r, n), up to the loop: the call frame with the
\* threshold computed, unless the full range is requested.
irand_mod_enter(n) ==
  [op |-> "drawing", n |-> n, val |-> Zero32, xs |-> <<>>,
   lim |-> IF irand_mod_range(n) = Zero32 THEN Zero32
           ELSE irand_mod_lim(irand_mod_range(n)),
   before |-> 0]

\* What the call frame c of irand_mod does with the word x that irand32
\* returned to it: return it (full range), draw again, or return x % n.
irand_mod_word(c, x) ==
  IF irand_mod_range(c.n) = Zero32
  THEN [c EXCEPT !.op = "returned", !.val = x, !.xs = Append(@, x)]
  ELSE IF irand_mod_rejects(x, c.lim)
  THEN [c EXCEPT !.xs = Append(@, x)]
  ELSE [c EXCEPT !.op = "returned", !.xs = Append(@, x),
                 !.val = irand_mod_reduce(x, irand_mod_range(c.n))]

\* irand_mod (r, n) on the stream r whose state is s: the stream and state
\* after the call, the value returned (val), the words drawn in order (xs),
\* the number of refills (fills) and the threshold used (lim).
irand_mod(r, s, n) ==
  IF irand_mod_range(n) = Zero32
  THEN irand_mod_full(irand32(r, s))
  ELSE irand_mod_loop([r |-> r, s |-> s, acc |-> {}], irand_mod_range(n),
                      irand_mod_lim(irand_mod_range(n)), <<>>, 0)

\* ------------------------------------------------------------------------
\* The program state
\* ------------------------------------------------------------------------

VARIABLES
  endian,   \* byte order of the platform: "little" or "big"
  st,       \* st[g]: the struct isaac_state g
  rs,       \* rs[k]: the struct irand_state k; rs[k].s names the state it uses
  phase,    \* phase[g]: "raw" (never seeded), "seeding" (between seed_start
            \* and seed_finish) or "seeded"
  input,    \* the seed bytes the caller supplies, in order
  fed,      \* fed[g]: number of bytes of input accumulated into state g
  calls,    \* calls[g]: number of isaac_seed_data calls since seed_start
  ready,    \* ready[k]: irand_init has run on stream k
  out,      \* out[k]: the last call on stream k and what it returned
  drawn,    \* drawn[k]: number of words stream k has handed out
  refills,  \* refills[k]: number of isaac_refill calls made for stream k
  touched,  \* byte offsets of mm read or written by the last isaac_refill
  pc,       \* position of the isaac_seed call on st[1] ("idle": no call)
  env,      \* env[dev]: whether open succeeds on the device dev
  opened,   \* the devices isaac_seed has called open on
  seedlog,  \* the isaac_seed_data calls of isaac_seed: what and how many bytes
  job       \* job[k]: the isaac_refill call in progress for stream k (its
            \* frame), with s0, the state at its entry, and solo, whether
            \* no other isaac_refill call ran on the state meanwhile

seedVars   == <<phase, input, fed, calls>>
streamVars == <<ready, out, drawn, refills, touched>>
defVars    == <<pc, env, opened, seedlog>>
stepVars   == <<job>>
vars       == <<endian, st, rs, phase, input, fed, calls,
                ready, out, drawn, refills, touched, pc, env, opened, seedlog, job>>

\* The isaac_state and irand_state objects of the model.
Gens    == {1, 2}
Streams == {1, 2}

\* Bounds of the model.
MaxCalls == 3        \* isaac_seed_data calls per seeding
InputLen == 2060     \* length of the seed byte sequence
MaxWords == 520      \* words handed out per stream
MaxDraws == 3        \* words presented to one irand_mod call, the last accepted
MaxPairCalls == 1    \* isaac_seed_data calls per seeding of the two generators
MaxPairWords == 258  \* words handed out to each of the two generators
MaxStepWords == 258  \* words handed out by the stream that refills step by step
StepChunk == 128     \* steps of a refill between two points where the other
                     \* stream's refill may run

\* Sizes of the buffers handed to isaac_seed_data: none, a small one, the
\* remainder of a block after the small one, a whole block, more than a block.
ChunkSizes == {0, 4, ISAAC_BYTES - 4, ISAAC_BYTES, ISAAC_BYTES + 6}

\* Seed byte sequences: byte i is a fixed function of i.
SeedBytes(mul, add) == [i \in 1..InputLen |-> (i * mul + add) % UCHAR_RANGE] \o <<>>
Inputs == {SeedBytes(7, 1)}

\* Contents of memory that was never written: every word holds the same
\* arbitrary value.
RawWord  == {Zero32, Max32, <<\Hdead, \Hbeef>>}
RawState(w) ==
  [mm |-> [j \in WordIx |-> w] @@ <<>>, iv |-> <<w, w, w, w, w, w, w, w>>,
   a |-> w, b |-> w, c |-> w]
RawStream(w) ==
  [r |-> [j \in WordIx |-> w] @@ <<>>, numleft |-> ToNat(<<0, w[2]>>), s |-> 1]

\* ------------------------------------------------------------------------
\* Seeding calls
\* ------------------------------------------------------------------------

SeedStart(g) ==
  /\ phase[g] = "raw"
  /\ st' = [st EXCEPT ![g] = isaac_seed_start(st[g])]
  /\ phase' = [phase EXCEPT ![g] = "seeding"]
  /\ fed' = [fed EXCEPT ![g] = 0]
  /\ calls' = [calls EXCEPT ![g] = 0]
  /\ UNCHANGED <<endian, rs, input>>
  /\ UNCHANGED streamVars
  /\ UNCHANGED defVars
  /\ UNCHANGED stepVars

\* isaac_seed_data (s, buf, n) with buf the next n bytes of input.
SeedData(g, n) ==
  /\ phase[g] = "seeding"
  /\ calls[g] < MaxCalls
  /\ fed[g] + n <= Len(input)
  /\ st' = [st EXCEPT ![g] =
              isaac_seed_data(st[g], SubSeq(input, fed[g] + 1, fed[g] + n), n, endian)]
  /\ fed' = [fed EXCEPT ![g] = fed[g] + n]
  /\ calls' = [calls EXCEPT ![g] = calls[g] + 1]
  /\ UNCHANGED <<endian, rs, phase, input>>
  /\ UNCHANGED streamVars
  /\ UNCHANGED defVars
  /\ UNCHANGED stepVars

SeedFinish(g) ==
  /\ phase[g] = "seeding"
  /\ st' = [st EXCEPT ![g] = isaac_seed_finish(st[g])]
  /\ phase' = [phase EXCEPT ![g] = "seeded"]
  /\ UNCHANGED <<endian, rs, input, fed, calls>>
  /\ UNCHANGED streamVars
  /\ UNCHANGED defVars
  /\ UNCHANGED stepVars

\* ------------------------------------------------------------------------
\* Stream calls
\* ------------------------------------------------------------------------

\* The requests n of irand_mod the callers make: the smallest range, one
\* whose n + 1 divides 2^32, one with a small threshold, one whose threshold
\* is nearly 2^31, the largest reduced range and the full range.
Requests ==
  { U32(0), U32(255), U32(9), <<\H8000, \H0000>>, <<\Hffff, \Hfffe>>, Max32 }

NoCall == [op |-> "none", n |-> Zero32, val |-> Zero32, xs |-> <<>>, lim |-> Zero32,
           before |-> 0]

\* No isaac_seed call is made.
NoSeedCall ==
  /\ pc = "idle"
  /\ env = [dev \in {"urandom", "random"} |-> TRUE]
  /\ opened = {}
  /\ seedlog = <<>>

\* No isaac_refill call is in progress.
NoJob == [f |-> refill_idle, s0 |-> RawState(Zero32), solo |-> TRUE]

InitStreamVars ==
  /\ NoSeedCall
  /\ job = [k \in Streams |-> NoJob]
  /\ ready = [k \in Streams |-> FALSE]
  /\ out = [k \in Streams |-> NoCall]
  /\ drawn = [k \in Streams |-> 0]
  /\ refills = [k \in Streams |-> 0]
  /\ touched = {}

\* irand_init (&rs[k], &st[g]), on a state that has been seeded.
StreamInit(k, g) ==
  /\ phase[g] = "seeded"
  /\ ~ready[k]
  /\ rs' = [rs EXCEPT ![k] = irand_init(rs[k], g)]
  /\ ready' = [ready EXCEPT ![k] = TRUE]
  /\ UNCHANGED <<endian, st, out, drawn, refills, touched>>
  /\ UNCHANGED seedVars
  /\ UNCHANGED defVars
  /\ UNCHANGED stepVars

\* The caller's view of a call on stream k that returned d.
StreamReturn(k, d, call) ==
  /\ rs' = [rs EXCEPT ![k] = d.r]
  /\ st' = [st EXCEPT ![rs[k].s] = d.s]
  /\ out' = [out EXCEPT ![k] = call]
  /\ drawn' = [drawn EXCEPT ![k] = drawn[k] + Len(call.xs)]
  /\ refills' = [refills EXCEPT ![k] = refills[k] + d.fills]
  /\ touched' = IF d.fills > 0 THEN d.acc ELSE touched
  /\ UNCHANGED <<endian, ready>>
  /\ UNCHANGED seedVars
  /\ UNCHANGED defVars

Word32Return(k, d) ==
  StreamReturn(k, [r |-> d.r, s |-> d.s, acc |-> d.acc,
                   fills |-> IF d.refilled THEN 1 ELSE 0],
               [op |-> "irand32", n |-> Zero32, val |-> d.x, xs |-> <<d.x>>,
                lim |-> Zero32, before |-> rs[k].numleft])

\* x = irand32 (&rs[k])
Word32(k) ==
  /\ ready[k]
  /\ drawn[k] < MaxWords
  /\ Word32Return(k, irand32(rs[k], st[rs[k].s]))
  /\ UNCHANGED stepVars

ModReturn(k, n, d) ==
  StreamReturn(k, d, [op |-> "irand_mod", n |-> n, val |-> d.val, xs |-> d.xs,
                      lim |-> d.lim, before |-> rs[k].numleft])

\* x = irand_mod (&rs[k], n)
Mod(k, n) ==
  /\ ready[k]
  /\ drawn[k] < MaxWords
  /\ ModReturn(k, n, irand_mod(rs[k], st[rs[k].s], n))
  /\ UNCHANGED stepVars

\* ------------------------------------------------------------------------
\* Specification of the seeding protocol on one isaac_state
\* ------------------------------------------------------------------------

InitSeed ==
  /\ endian \in {"little", "big"}
  /\ \E w \in RawWord : st = [g \in Gens |-> RawState(w)]
  /\ rs = [k \in Streams |-> RawStream(Zero32)]
  /\ phase = [g \in Gens |-> "raw"]
  /\ input \in Inputs
  /\ fed = [g \in Gens |-> 0]
  /\ calls = [g \in Gens |-> 0]
  /\ InitStreamVars

NextSeed ==
  \/ SeedStart(1)
  \/ \E n \in ChunkSizes : SeedData(1, n)
  \/ SeedFinish(1)

SpecSeed == InitSeed /\ [][NextSeed]_vars

\* The state that one isaac_seed_data call with the first n bytes of input,
\* between seed_start and seed_finish, leaves.
SeededWhole(n) ==
  isaac_seed_finish(isaac_seed_data(isaac_seed_start(RawState(Zero32)), input, n, endian))

\* C1: split-invariance of seeding.  After seed_finish, the state of a run
\* that accumulated its bytes in any number of consecutive chunks equals the
\* state of the run that accumulated the same bytes in one call.
C1_SplitInvariant ==
  phase[1] = "seeded" => st[1] = SeededWhole(fed[1])

\* C8: seeding cursor range as claimed: between seed_start and seed_finish c
\* is a byte offset strictly below ISAAC_BYTES.
C8_CursorBelowBlock ==
  phase[1] = "seeding" => (st[1].c[1] = 0 /\ st[1].c[2] < ISAAC_BYTES)

\* C8 (amended): between seed_start and seed_finish c never exceeds
\* ISAAC_BYTES; it may equal ISAAC_BYTES.
C8_CursorAtMostBlock ==
  phase[1] = "seeding" => (st[1].c[1] = 0 /\ st[1].c[2] <= ISAAC_BYTES)

\* C8 witness: a buffer that exactly fills the block has been accumulated and
\* the cursor stands at the end of the block.
C8_Witness ==
  phase[1] = "seeding" /\ calls[1] >= 1 /\ st[1].c = U32(ISAAC_BYTES)

\* C17: write safety of isaac_seed_data.  At every call between seed_start
\* and seed_finish the cursor is at most ISAAC_BYTES, so the space
\* ISAAC_BYTES - c does not underflow; every pass of the call starts at a
\* byte offset p and XORs n bytes with p + n <= ISAAC_BYTES, so that every
\* byte written lies in 0..ISAAC_BYTES - 1; the call leaves the cursor at
\* the size of its last pass, and a call of one pass changes mm by that pass.
C17_WriteSafety ==
  [][calls'[1] = calls[1] + 1 =>
       LET c  == ToNat(st[1].c)
           ps == seed_data_passes(c, fed'[1] - fed[1], ISAAC_BYTES - c)
       IN  /\ st[1].c[1] = 0 /\ c <= ISAAC_BYTES
           /\ \A p \in 1..Len(ps) :
                 /\ ps[p].off >= 0 /\ ps[p].n >= 0
                 /\ ps[p].off + ps[p].n <= ISAAC_BYTES
                 /\ \A o \in ps[p].off..(ps[p].off + ps[p].n - 1) :
                       o \in 0..(ISAAC_BYTES - 1)
           /\ st'[1].c = U32(ps[Len(ps)].n)
           /\ (Len(ps) = 1 =>
                 st'[1].mm = xor_bytes(st[1].mm, ps[1].off,
                                       SubSeq(input, fed[1] + 1, fed'[1]), 0,
                                       ps[1].n, endian))]_vars

\* C17 witness: a buffer larger than the space left after a first small one
\* has been accumulated in two passes, ending 10 bytes into the next block.
C17_Witness ==
  /\ phase[1] = "seeding" /\ calls[1] = 2
  /\ fed[1] = 4 + ISAAC_BYTES + 6 /\ st[1].c = U32(10)

\* ------------------------------------------------------------------------
\* Specification of one stream on one seeded isaac_state
\* ------------------------------------------------------------------------

\* The stream's memory is uninitialised before irand_init; the platform is
\* a little-endian one.
InitStream ==
  /\ endian = "little"
  /\ st = [g \in Gens |-> RawState(Zero32)]
  /\ \E w \in RawWord : rs = <<RawStream(w), RawStream(Zero32)>>
  /\ phase = [g \in Gens |-> "raw"]
  /\ input \in Inputs
  /\ fed = [g \in Gens |-> 0]
  /\ calls = [g \in Gens |-> 0]
  /\ InitStreamVars

NextStream ==
  \/ SeedStart(1)
  \/ (calls[1] = 0 /\ SeedData(1, 4))
  \/ SeedFinish(1)
  \/ StreamInit(1, 1)
  \/ Word32(1)
  \/ \E n \in Requests : Mod(1, n)

SpecStream == InitStream /\ [][NextStream]_vars

\* Number of the j words requested in one call, on a stream with b words
\* left at its start, that are requested while no word is left.
RefillsDue(b, j) ==
  Cardinality({i \in 1..j : i - 1 >= b /\ (i - 1 - b) % ISAAC_WORDS = 0})

\* C4: buffer accounting of a stream initialised with numleft = 0.  numleft
\* stays in 0..ISAAC_WORDS; after k words drawn, ceil(k / ISAAC_WORDS) refills
\* have happened and each handed ISAAC_WORDS words to the stream; a call
\* refills exactly for the words it requests while numleft = 0.
C4_BufferAccounting ==
  /\ [](ready[1] =>
          /\ rs[1].numleft \in 0..ISAAC_WORDS
          /\ refills[1] = (drawn[1] + ISAAC_WORDS - 1) \div ISAAC_WORDS
          /\ rs[1].numleft = refills[1] * ISAAC_WORDS - drawn[1])
  /\ [][(ready[1] /\ drawn'[1] # drawn[1]) =>
          refills'[1] - refills[1] =
            RefillsDue(rs[1].numleft, drawn'[1] - drawn[1])]_vars

\* C4 witness: the 513th word has been drawn, by the third refill.
C4_Witness ==
  ready[1] /\ drawn[1] = 2 * ISAAC_WORDS + 1 /\ refills[1] = 3
           /\ rs[1].numleft = ISAAC_WORDS - 1

\* C7: full-range request.  irand_mod (r, 0xFFFFFFFF) draws exactly one word
\* and returns it unmodified: the word of the buffer that one irand32 call
\* takes.
C7_FullRange ==
  (out[1].op = "irand_mod" /\ out[1].n = Max32) =>
     /\ Len(out[1].xs) = 1
     /\ out[1].val = out[1].xs[1]
     /\ rs[1].numleft =
          (IF out[1].before = 0 THEN ISAAC_WORDS ELSE out[1].before) - 1
     /\ out[1].val = rs[1].r[rs[1].numleft]

\* C7 witness: a full-range request returned a word of 2^31 or more, taken
\* from a buffer that the call itself refilled.
C7_Witness ==
  /\ out[1].op = "irand_mod" /\ out[1].n = Max32
  /\ out[1].before = 0 /\ refills[1] = 2
  /\ out[1].val[1] >= HALF_RANGE \div 2

\* C9: role switch of c.  isaac_seed_finish is two mixing passes followed by
\* c = 0, whatever was accumulated; each refill increments c by one and adds
\* the new c to b; no call without a refill changes c; so after k refills
\* c = k.
C9_RoleSwitch ==
  /\ [](phase[1] = "seeded" => st[1].c = U32(refills[1]))
  /\ [][(phase[1] = "seeding" /\ phase'[1] = "seeded") =>
          st'[1] = [isaac_mix(isaac_mix(st[1], st[1].mm),
                              isaac_mix(st[1], st[1].mm).mm)
                      EXCEPT !.c = Zero32]]_vars
  /\ [][(phase[1] = "seeded" /\ refills'[1] = refills[1]) =>
          st'[1].c = st[1].c]_vars
  /\ [][refills'[1] = refills[1] + 1 =>
          /\ st'[1].c = Add32(st[1].c, U32(1))
          /\ st'[1] = refill_exit(st[1],
                        isaac_steps([mm |-> st[1].mm, a |-> st[1].a,
                                     b |-> Add32(st[1].b, st'[1].c),
                                     r |-> rs[1].r, acc |-> {}],
                                    0, ISAAC_WORDS)).s]_vars

\* C9 witness: seeding finished without any byte accumulated, and two
\* refills have run since.
C9_Witness ==
  phase[1] = "seeded" /\ fed[1] = 0 /\ refills[1] = 2 /\ st[1].c = U32(2)

\* The refill that produces the d-th word a stream hands out (d >= 1), and
\* the index of that word in the block when the block is taken from its tail.
BlockOf(d) == (d - 1) \div ISAAC_WORDS + 1
TailIx(d) == ISAAC_WORDS - 1 - ((d - 1) % ISAAC_WORDS)

\* C13: tail-first consumption order.  The d-th word a stream hands out, to
\* irand32 or to a draw of irand_mod, is the word 255 - ((d - 1) mod 256) of
\* the block its refill number ceil(d / 256) produced: after a refill the
\* block is returned from r[255] down to r[0], each word once, and the next
\* word comes from the next refill.
C13_TailFirst ==
  /\ [](ready[1] => refills[1] = (drawn[1] + ISAAC_WORDS - 1) \div ISAAC_WORDS)
  /\ []((ready[1] /\ drawn[1] > 0) =>
          /\ rs[1].numleft = TailIx(drawn[1])
          /\ out[1].xs[Len(out[1].xs)] = rs[1].r[TailIx(drawn[1])])
  /\ [][(ready[1] /\ drawn'[1] # drawn[1]) =>
          /\ Len(out'[1].xs) = drawn'[1] - drawn[1]
          /\ \A j \in 1..Len(out'[1].xs) :
                /\ BlockOf(drawn[1] + j) \in {refills[1], refills'[1]}
                /\ out'[1].xs[j] =
                     (IF BlockOf(drawn[1] + j) = refills'[1]
                      THEN rs'[1].r ELSE rs[1].r)[TailIx(drawn[1] + j)]]_vars

\* C13 witness: an irand_mod call took r[0], the last word of a block,
\* rejected it and returned r[255] of the next block.
C13_Witness ==
  /\ out[1].op = "irand_mod" /\ out[1].before = 1 /\ Len(out[1].xs) = 2
  /\ rs[1].numleft = ISAAC_WORDS - 1 /\ refills[1] = 2

\* C14: frame of irand32.  A call made while numleft > 0 decrements numleft
\* by one and leaves the isaac_state and every word of r unchanged; once
\* seeded, the isaac_state changes only in a step that refills, and no such
\* step changes iv.
C14_Frame ==
  /\ [][(ready[1] /\ drawn'[1] # drawn[1] /\ out'[1].op = "irand32"
           /\ rs[1].numleft > 0) =>
          /\ rs'[1].numleft = rs[1].numleft - 1
          /\ rs'[1].r = rs[1].r
          /\ st' = st
          /\ refills' = refills
          /\ out'[1].val = rs[1].r[rs[1].numleft - 1]]_vars
  /\ [][(phase[1] = "seeded" /\ st' # st) => refills'[1] > refills[1]]_vars
  /\ [][phase[1] = "seeded" => st'[1].iv = st[1].iv]_vars

\* C14 witness: an irand32 call returned a word from the middle of the
\* second block, two hundred words being left before it.
C14_Witness ==
  /\ out[1].op = "irand32" /\ out[1].before = 200
  /\ rs[1].numleft = 199 /\ refills[1] = 2

\* Values of x and y at the boundaries of the index mask.
IndexProbes ==
  { Zero32, U32(1), U32(3), U32(4), U32(ISAAC_BYTES - 4), U32(ISAAC_BYTES - 1),
    U32(ISAAC_BYTES), U32(ISAAC_BYTES + 3), <<\H7fff, \Hffff>>, <<\H8000, \H0000>>,
    <<\Hffff, \Hfffc>>, Max32 }

\* A byte offset that addresses a whole word of mm.
WholeWord(off) ==
  off % SIZEOF_UINT32 = 0 /\ off \in 0..(ISAAC_BYTES - SIZEOF_UINT32)

\* C10: index safety in refill.  Every byte offset of mm that a refill reads
\* or writes (current word, partner word, both indirect lookups) addresses a
\* whole word of the array, and so does ind for the boundary values of x.
C10_IndexSafety ==
  /\ \A off \in touched : WholeWord(off)
  /\ \A x \in IndexProbes : WholeWord(ind_offset(x))

\* C10 witness: a refill has run and touched every word of mm, the first and
\* the last included.
C10_Witness ==
  refills[1] >= 1 /\ Cardinality(touched) = ISAAC_WORDS
                  /\ 0 \in touched /\ (ISAAC_BYTES - SIZEOF_UINT32) \in touched

\* ------------------------------------------------------------------------
\* Specification of irand_mod as a function of the request and of the words
\* drawn, whatever the words are
\* ------------------------------------------------------------------------

\* The ranges requested: the small ones, those around the powers of two and
\* the largest ones.
UniformRequests ==
  { U32(k) : k \in 0..12 }
    \cup { <<0, Pow2(k) - 1>> : k \in 4..15 } \cup { <<0, Pow2(k)>> : k \in 4..15 }
    \cup { <<Pow2(k), 0>> : k \in 0..15 } \cup { <<Pow2(k) - 1, HALF_RANGE - 1>> : k \in 1..16 }
    \cup { <<Pow2(k), 1>> : k \in 0..15 }
    \cup { <<\Haaaa, \Haaaa>>, <<\H5555, \H5555>>, <<\Hffff, \Hfffd>>, <<\Hffff, \Hfffe>> }

\* n + 1 as a natural: the number m of values requested (2^32 for the full
\* range).
RangeOf(n) == WAdd(n, <<0, 1>>)

\* (2^32 - m) mod m, in unbounded arithmetic.
ThresholdOf(m) == WDivMod(WSub(Two32, m), m).r

\* The words presented to a call with request n: the ends of the 32-bit
\* range, the words around the threshold and around the range.
WordsFor(n) ==
  UNION { { x \in { Zero32, Max32, <<\H8000, \H0000>>, n, lim, WAdd(lim, <<0, 1>>),
                    IF lim = Zero32 THEN Zero32 ELSE WSub(lim, <<0, 1>>) } : IsU32(x) } :
          lim \in { ThresholdOf(RangeOf(n)) } }

\* x = irand_mod (r, n) begins: the one call of the behaviour.
Request(n) ==
  /\ out[1].op = "none"
  /\ out' = [out EXCEPT ![1] = irand_mod_enter(n)]
  /\ UNCHANGED <<endian, st, rs, ready, drawn, refills, touched>>
  /\ UNCHANGED seedVars
  /\ UNCHANGED defVars
  /\ UNCHANGED stepVars

\* irand32 returns the word x to the call in progress.  The bound is on the
\* words a call rejects: its last word may always be one it accepts.
Present(x) ==
  /\ out[1].op = "drawing"
  /\ \E c \in { irand_mod_word(out[1], x) } :
       /\ (Len(out[1].xs) + 1 < MaxDraws \/ c.op = "returned")
       /\ out' = [out EXCEPT ![1] = c]
  /\ UNCHANGED <<endian, st, rs, ready, drawn, refills, touched>>
  /\ UNCHANGED seedVars
  /\ UNCHANGED defVars
  /\ UNCHANGED stepVars

InitUniform ==
  /\ endian = "little"
  /\ st = [g \in Gens |-> RawState(Zero32)]
  /\ rs = [k \in Streams |-> RawStream(Zero32)]
  /\ phase = [g \in Gens |-> "raw"]
  /\ input \in Inputs
  /\ fed = [g \in Gens |-> 0]
  /\ calls = [g \in Gens |-> 0]
  /\ InitStreamVars

NextUniform ==
  \/ \E n \in UniformRequests : Request(n)
  \/ \E x \in WordsFor(out[1].n) : Present(x)

SpecUniform == InitUniform /\ [][NextUniform]_vars

\* Number of the naturals x below the bound with x mod m = r (r < m).
CountBelow(bound, m, r) == WDivMod(WSub(WAdd(bound, m), WAdd(r, <<0, 1>>)), m).q

\* Number of the 32-bit words x >= lim with x mod m = r.
AcceptedCount(lim, m, r) ==
  WSub(CountBelow(Two32, m, r), CountBelow(lim, m, r))

\* Residues of m at which the counts are compared: the ends of the range
\* and the residues around the threshold.
ResiduesFor(m, lim) ==
  { r \in { Zero32, <<0, 1>>, WSub(m, <<0, 1>>), lim, WAdd(lim, <<0, 1>>),
            IF lim = Zero32 THEN Zero32 ELSE WSub(lim, <<0, 1>>) } : WLt(r, m) }

\* C2: exact uniformity of irand_mod (r, n) for n < 2^32 - 1, with m = n + 1
\* and lim = (2^32 - m) mod m.  The call returns x mod m for the first word
\* drawn with x >= lim, a value in 0..n; and with the threshold the call
\* uses, every residue is the image of floor(2^32 / m) accepted words.
C2_ExactUniformity ==
  (out[1].op = "returned" /\ out[1].n # Max32) =>
    LET m   == RangeOf(out[1].n)
        lim == ThresholdOf(m)
        xs  == out[1].xs
    IN  /\ WLe(lim, xs[Len(xs)])
        /\ \A i \in 1..(Len(xs) - 1) : WLt(xs[i], lim)
        /\ out[1].val = WDivMod(xs[Len(xs)], m).r
        /\ WLe(out[1].val, out[1].n)
        /\ \A r \in ResiduesFor(m, lim) :
             AcceptedCount(out[1].lim, m, r) = WDivMod(Two32, m).q

\* C2 witness: a request with a threshold near 2^31 returned after a
\* rejected draw.
C2_Witness ==
  /\ out[1].op = "returned" /\ out[1].n = <<\H8000, \H0000>>
  /\ Len(out[1].xs) = 2 /\ out[1].xs[2] = out[1].lim

\* C3: rejection threshold.  For m = n + 1 in 1..2^32 the threshold the call
\* uses equals (2^32 - m) mod m and is below m; the words the call rejects
\* are exactly the lim words below lim; a full-range call (m = 2^32) rejects
\* no word.
C3_Threshold ==
  out[1].op \in {"drawing", "returned"} =>
    LET m   == RangeOf(out[1].n)
        lim == ThresholdOf(m)
        xs  == out[1].xs
    IN  /\ out[1].lim = lim
        /\ WLt(lim, m)
        /\ \A x \in WordsFor(out[1].n) :
             (irand_mod_word([out[1] EXCEPT !.op = "drawing"], x).op = "drawing")
               <=> WLt(x, lim)
        /\ \A i \in 1..Len(xs) :
             (i < Len(xs) \/ out[1].op = "drawing") <=> WLt(xs[i], lim)
        /\ (m = Two32 => lim = Zero32 /\ Len(xs) <= 1)

\* C3 witness: the largest word below a threshold near 2^31 was drawn and
\* rejected, and the call still draws.
C3_Witness ==
  /\ out[1].op = "drawing" /\ out[1].n = <<\H8000, \H0000>>
  /\ Len(out[1].xs) = 1 /\ out[1].xs[1] = WSub(out[1].lim, <<0, 1>>)
  /\ out[1].lim = <<\H7fff, \Hffff>>

\* C18: bounded rejection rate.  For every n < 2^32 - 1 the threshold that
\* irand_mod computes is below 2^31, so more than 2^31 of the 2^32 words
\* are accepted at each draw.
C18_ThresholdBelowHalf ==
  (out[1].op \in {"drawing", "returned"} /\ out[1].n # Max32) =>
     /\ WLt(out[1].lim, <<HALF_RANGE \div 2, 0>>)
     /\ WLt(<<HALF_RANGE \div 2, 0>>, WSub(Two32, out[1].lim))

\* C18 witness: the request with the largest threshold, 2^31 - 1, returned
\* at its first draw.
C18_Witness ==
  /\ out[1].op = "returned" /\ out[1].n = <<\H8000, \H0000>>
  /\ out[1].lim = <<\H7fff, \Hffff>> /\ out[1].xs = <<Max32>>

\* irand32 returns a word that ends the loop of the call in progress.
Accept ==
  \E x \in WordsFor(out[1].n) :
    (irand_mod_range(out[1].n) = Zero32 \/ ~irand_mod_rejects(x, out[1].lim)) /\ Present(x)

\* The same calls, under the assumption that irand32 does not hand out
\* rejected words for ever.
SpecUniformFair == InitUniform /\ [][NextUniform]_vars /\ WF_vars(Accept)

\* C16: completion of irand_mod.  Under the assumption that a word not
\* below the threshold is eventually drawn, every call returns, for every
\* n; the loop ends at the first word drawn that is not below
\* (2^32 - m) mod m, so the call consumes the rejected words and one more;
\* and with threshold 0 it returns after exactly one draw.
C16_Completion ==
  /\ [](out[1].op = "returned" =>
          LET lim == ThresholdOf(RangeOf(out[1].n))
              xs  == out[1].xs
          IN  /\ Len(xs) >= 1
              /\ \A i \in 1..Len(xs) : WLt(xs[i], lim) <=> i < Len(xs)
              /\ (lim = Zero32 => Len(xs) = 1))
  /\ (out[1].op = "drawing") ~> (out[1].op = "returned")

\* C16 witness: a call returned at its third draw, after two rejected ones.
C16_Witness ==
  /\ out[1].op = "returned" /\ Len(out[1].xs) = 3
  /\ WLt(out[1].xs[2], out[1].lim) /\ WLe(out[1].lim, out[1].xs[3])

\* ------------------------------------------------------------------------
\* Specification of two generators that receive the same calls: generator g
\* is the isaac_state st[g] with the stream rs[g]; every call is made on
\* both, with the same arguments.
\* ------------------------------------------------------------------------

\* The memory of the two generators before construction differs.
InitPair ==
  /\ endian = "little"
  /\ \E w \in RawWord \ {Zero32} :
       /\ st = <<RawState(w), RawState(Zero32)>>
       /\ rs = <<RawStream(Zero32), RawStream(w)>>
  /\ phase = [g \in Gens |-> "raw"]
  /\ input \in Inputs
  /\ fed = [g \in Gens |-> 0]
  /\ calls = [g \in Gens |-> 0]
  /\ InitStreamVars

PairStart ==
  /\ phase = <<"raw", "raw">>
  /\ st' = <<isaac_seed_start(st[1]), isaac_seed_start(st[2])>>
  /\ phase' = <<"seeding", "seeding">>
  /\ UNCHANGED <<endian, rs, input, fed, calls>>
  /\ UNCHANGED streamVars
  /\ UNCHANGED defVars
  /\ UNCHANGED stepVars

PairData(n) ==
  /\ phase = <<"seeding", "seeding">>
  /\ calls[1] < MaxPairCalls
  /\ fed[1] + n <= Len(input)
  /\ st' = <<isaac_seed_data(st[1], SubSeq(input, fed[1] + 1, fed[1] + n), n, endian),
             isaac_seed_data(st[2], SubSeq(input, fed[2] + 1, fed[2] + n), n, endian)>>
  /\ fed' = <<fed[1] + n, fed[2] + n>>
  /\ calls' = <<calls[1] + 1, calls[2] + 1>>
  /\ UNCHANGED <<endian, rs, phase, input>>
  /\ UNCHANGED streamVars
  /\ UNCHANGED defVars
  /\ UNCHANGED stepVars

PairFinish ==
  /\ phase = <<"seeding", "seeding">>
  /\ st' = <<isaac_seed_finish(st[1]), isaac_seed_finish(st[2])>>
  /\ phase' = <<"seeded", "seeded">>
  /\ UNCHANGED <<endian, rs, input, fed, calls>>
  /\ UNCHANGED streamVars
  /\ UNCHANGED defVars
  /\ UNCHANGED stepVars

PairInit ==
  /\ phase = <<"seeded", "seeded">>
  /\ ready = <<FALSE, FALSE>>
  /\ rs' = <<irand_init(rs[1], 1), irand_init(rs[2], 2)>>
  /\ ready' = <<TRUE, TRUE>>
  /\ UNCHANGED <<endian, st, out, drawn, refills, touched>>
  /\ UNCHANGED seedVars
  /\ UNCHANGED defVars
  /\ UNCHANGED stepVars

\* The callers' view of the same call on the two generators, which returned
\* d1 and d2.
PairReturn(d1, d2, op, n) ==
  /\ rs' = <<d1.r, d2.r>>
  /\ st' = <<d1.s, d2.s>>
  /\ out' = <<[op |-> op, n |-> n, val |-> d1.val, xs |-> d1.xs, lim |-> d1.lim,
               before |-> rs[1].numleft],
              [op |-> op, n |-> n, val |-> d2.val, xs |-> d2.xs, lim |-> d2.lim,
               before |-> rs[2].numleft]>>
  /\ drawn' = <<drawn[1] + Len(d1.xs), drawn[2] + Len(d2.xs)>>
  /\ refills' = <<refills[1] + d1.fills, refills[2] + d2.fills>>
  /\ touched' = IF d1.fills > 0 THEN d1.acc ELSE touched
  /\ UNCHANGED <<endian, ready>>
  /\ UNCHANGED seedVars
  /\ UNCHANGED defVars
  /\ UNCHANGED stepVars

\* x = irand32 (&rs[g]) on both.
PairWord32 ==
  /\ ready = <<TRUE, TRUE>>
  /\ drawn[1] < MaxPairWords
  /\ PairReturn(irand_mod_full(irand32(rs[1], st[1])),
                irand_mod_full(irand32(rs[2], st[2])), "irand32", Zero32)

\* x = irand_mod (&rs[g], n) on both.
PairMod(n) ==
  /\ ready = <<TRUE, TRUE>>
  /\ drawn[1] < MaxPairWords
  /\ PairReturn(irand_mod(rs[1], st[1], n), irand_mod(rs[2], st[2], n),
                "irand_mod", n)

NextPair ==
  \/ PairStart
  \/ \E n \in {4, ISAAC_BYTES + 6} : PairData(n)
  \/ PairFinish
  \/ PairInit
  \/ PairWord32
  \/ \E n \in {U32(9), <<\H8000, \H0000>>} : PairMod(n)

SpecPair == InitPair /\ [][NextPair]_vars

\* C5: determinism.  Two generators that receive the same seeding calls with
\* the same bytes hold identical isaac_states during and after seeding, and
\* the same calls of irand32 and irand_mod on their streams return identical
\* values, whatever their memory held before.
C5_Determinism ==
  /\ phase[1] = phase[2]
  /\ (phase[1] \in {"seeding", "seeded"} => st[1] = st[2])
  /\ (ready[1] =>
        /\ out[1] = out[2]
        /\ rs[1].numleft = rs[2].numleft
        /\ (drawn[1] > 0 => rs[1].r = rs[2].r))

\* C5 witness: both generators, seeded with the same bytes, have returned
\* the same value of an irand_mod call that needed their second refill.
C5_Witness ==
  /\ phase = <<"seeded", "seeded">> /\ fed[1] > 0
  /\ refills = <<2, 2>>
  /\ out[1].op = "irand_mod" /\ out[2].val = out[1].val

\* ------------------------------------------------------------------------
\* Specification of the default seeding, isaac_seed (&st[1])
\* ------------------------------------------------------------------------

\* The objects isaac_seed reads from the system: their bytes in memory order.
ObjectBytes(at) ==
  IF at = "pid" THEN { <<210, 4, 0, 0>>, <<1, 0, 0, 0>> }
  ELSE IF at = "time" THEN { <<1, 2, 3, 4, 5, 6, 7, 8>>, <<255, 254, 3, 4, 5, 6, 7, 9>> }
  ELSE { <<232, 3, 0, 0>> }

\* The results of read (fd, buf, size): -1, a short read, a full read.
ReadResults(size) == {0 - 1, 5, size}

\* buf after a read that returned k: the bytes the device gave, then what
\* the uninitialised buffer held (junk).
ReadBuffer(size, k, junk) ==
  [i \in 1..size |-> IF i <= k THEN (i * 37) % UCHAR_RANGE ELSE junk] \o <<>>

\* isaac_seed_data (s, buf, size) at the position pc of isaac_seed.
DefAccumulate(buf) ==
  /\ st' = [st EXCEPT ![1] = isaac_seed_data(st[1], buf, isaac_seed_size(pc), endian)]
  /\ seedlog' = Append(seedlog, [what |-> pc, size |-> isaac_seed_size(pc)])
  /\ fed' = [fed EXCEPT ![1] = fed[1] + isaac_seed_size(pc)]
  /\ calls' = [calls EXCEPT ![1] = calls[1] + 1]
  /\ pc' = isaac_seed_next(pc, TRUE)
  /\ UNCHANGED <<endian, rs, phase, input, env, opened>>
  /\ UNCHANGED streamVars
  /\ UNCHANGED stepVars

\* isaac_seed_start (s)
DefStart ==
  /\ pc = "entry"
  /\ st' = [st EXCEPT ![1] = isaac_seed_start(st[1])]
  /\ phase' = [phase EXCEPT ![1] = "seeding"]
  /\ pc' = isaac_seed_next(pc, TRUE)
  /\ UNCHANGED <<endian, rs, input, fed, calls, env, opened, seedlog>>
  /\ UNCHANGED streamVars
  /\ UNCHANGED stepVars

\* { pid_t t = getpid ();  ISAAC_SEED (s, t); } and the like, the timestamp
\* included.
DefObject ==
  /\ pc \in {"pid", "ppid", "uid", "gid", "time"}
  /\ \E t \in ObjectBytes(pc) : DefAccumulate(t)

\* fd = open (device); if (fd >= 0)
DefOpen ==
  /\ pc \in {"open_urandom", "open_random"}
  /\ opened' = opened \cup {IF pc = "open_urandom" THEN "urandom" ELSE "random"}
  /\ pc' = isaac_seed_next(pc, env[IF pc = "open_urandom" THEN "urandom" ELSE "random"])
  /\ UNCHANGED <<endian, st, rs, env, seedlog>>
  /\ UNCHANGED seedVars
  /\ UNCHANGED streamVars
  /\ UNCHANGED stepVars

\* read (fd, buf, size); close (fd); isaac_seed_data (s, buf, size): the
\* result of read is not looked at.
DefDevice ==
  /\ pc \in {"urandom", "random"}
  /\ \E k \in ReadResults(isaac_seed_size(pc)), junk \in {0, 170} :
       DefAccumulate(ReadBuffer(isaac_seed_size(pc), k, junk))

\* isaac_seed_finish (s)
DefFinish ==
  /\ pc = "finish"
  /\ st' = [st EXCEPT ![1] = isaac_seed_finish(st[1])]
  /\ phase' = [phase EXCEPT ![1] = "seeded"]
  /\ pc' = isaac_seed_next(pc, TRUE)
  /\ UNCHANGED <<endian, rs, input, fed, calls, env, opened, seedlog>>
  /\ UNCHANGED streamVars
  /\ UNCHANGED stepVars

InitDefault ==
  /\ endian \in {"little", "big"}
  /\ st = [g \in Gens |-> RawState(Zero32)]
  /\ rs = [k \in Streams |-> RawStream(Zero32)]
  /\ phase = [g \in Gens |-> "raw"]
  /\ input \in Inputs
  /\ fed = [g \in Gens |-> 0]
  /\ calls = [g \in Gens |-> 0]
  /\ ready = [k \in Streams |-> FALSE]
  /\ out = [k \in Streams |-> NoCall]
  /\ drawn = [k \in Streams |-> 0]
  /\ refills = [k \in Streams |-> 0]
  /\ touched = {}
  /\ pc = "entry"
  /\ env \in [{"urandom", "random"} -> BOOLEAN]
  /\ opened = {}
  /\ seedlog = <<>>
  /\ job = [k \in Streams |-> NoJob]

NextDefault ==
  \/ DefStart
  \/ DefObject
  \/ DefOpen
  \/ DefDevice
  \/ DefFinish

\* The statements of isaac_seed before isaac_seed_finish: each of them
\* returns, the system calls included, so a call that has begun goes on.
DefProlog == DefStart \/ DefObject \/ DefOpen \/ DefDevice

SpecDefault == InitDefault /\ [][NextDefault]_vars /\ WF_vars(DefProlog)

\* The isaac_seed_data calls of a complete isaac_seed, by what opens.
ExpectedLog(e) ==
  << [what |-> "pid", size |-> 4], [what |-> "ppid", size |-> 4],
     [what |-> "uid", size |-> 4], [what |-> "gid", size |-> 4],
     [what |-> "time", size |-> 8] >>
  \o (IF e["urandom"] THEN << [what |-> "urandom", size |-> 32] >>
      ELSE IF e["random"] THEN << [what |-> "random", size |-> 16] >>
      ELSE << >>)

\* C6: default seeding never fails and falls back in order.  Whatever opens,
\* isaac_seed runs isaac_seed_start first, accumulates pid, ppid, uid, gid
\* and the timestamp in that order, then 32 bytes of /dev/urandom if it
\* opened, else 16 bytes of /dev/random if that opened, else nothing;
\* /dev/random is opened only after /dev/urandom failed to open; and the call
\* always reaches isaac_seed_finish, with the accumulations made.
C6_DefaultSeeding ==
  /\ [](pc # "entry" => phase[1] \in {"seeding", "seeded"})
  /\ [](seedlog = SubSeq(ExpectedLog(env), 1, Len(seedlog)))
  /\ [](pc = "done" => (phase[1] = "seeded" /\ seedlog = ExpectedLog(env)))
  /\ []("random" \in opened => ("urandom" \in opened /\ ~env["urandom"]))
  /\ <>(pc = "finish" /\ seedlog = ExpectedLog(env))

\* C6 witness: /dev/urandom did not open, /dev/random did, and the seeding
\* is finished with six accumulations.
C6_Witness ==
  /\ pc = "done" /\ ~env["urandom"] /\ env["random"]
  /\ opened = {"urandom", "random"} /\ Len(seedlog) = 6

\* C15: a device read that fails or comes short.  After the step that reads
\* a device, mm holds, XORed in at the cursor, the bytes that read returned
\* (none when it failed) and nothing else, whatever the buffer held before.
C15_OnlyBytesRead ==
  [][(pc \in {"urandom", "random"}) =>
       (\E k \in ReadResults(isaac_seed_size(pc)) :
          st'[1].mm = xor_bytes(st[1].mm, ToNat(st[1].c),
                                ReadBuffer(isaac_seed_size(pc), k, 0), 0,
                                (IF k < 0 THEN 0 ELSE k), endian))]_vars

\* ------------------------------------------------------------------------
\* isaac_refill statement by statement, as irand32 calls it on stream k
\* ------------------------------------------------------------------------

\* irand32 (&rs[k]) finds numleft = 0 and enters isaac_refill (r->s, r->r):
\* a = s->a, and s->c is read.
RefillLoad(k) ==
  /\ ready[k] /\ rs[k].numleft = 0
  /\ job[k].f.at = "idle"
  /\ drawn[k] < MaxStepWords
  /\ job' = [j \in Streams |->
               IF j = k
               THEN [f    |-> refill_load(st[rs[k].s]),
                     s0   |-> st[rs[k].s],
                     solo |-> \A o \in Streams \ {k} : job[o].f.at = "idle"]
               ELSE IF job[j].f.at # "idle" THEN [job[j] EXCEPT !.solo = FALSE]
               ELSE job[j]]
  /\ UNCHANGED <<endian, st, rs>>
  /\ UNCHANGED seedVars
  /\ UNCHANGED streamVars
  /\ UNCHANGED defVars

\* b = s->b + (++s->c): the incremented c is stored.
RefillCount(k) ==
  /\ job[k].f.at = "loaded"
  /\ st' = [st EXCEPT ![rs[k].s] = refill_count(st[rs[k].s], job[k].f).s]
  /\ job' = [job EXCEPT ![k].f = refill_count(st[rs[k].s], job[k].f).f]
  /\ UNCHANGED <<endian, rs>>
  /\ UNCHANGED seedVars
  /\ UNCHANGED streamVars
  /\ UNCHANGED defVars

\* One isaac_step of the two loops.
RefillStep(k) ==
  /\ job[k].f.at = "steps"
  /\ st' = [st EXCEPT ![rs[k].s] = refill_step(st[rs[k].s], rs[k].r, job[k].f).s]
  /\ rs' = [rs EXCEPT ![k].r = refill_step(st[rs[k].s], rs[k].r, job[k].f).r]
  /\ job' = [job EXCEPT ![k].f = refill_step(st[rs[k].s], rs[k].r, job[k].f).f]
  /\ UNCHANGED endian
  /\ UNCHANGED seedVars
  /\ UNCHANGED streamVars
  /\ UNCHANGED defVars

\* s->a = a; s->b = b; and back in irand32: r->numleft = ISAAC_WORDS;
\* return r->r[--r->numleft].
RefillReturn(k) ==
  /\ job[k].f.at = "store"
  /\ job' = [job EXCEPT ![k].f = refill_idle]
  /\ Word32Return(k, irand32_take(irand32_filled(rs[k],
                        [s   |-> refill_store(st[rs[k].s], job[k].f),
                         r   |-> rs[k].r,
                         acc |-> touched])))

\* x = irand32 (&rs[k]) while words are left.
Take(k) ==
  /\ rs[k].numleft > 0
  /\ job[k].f.at = "idle"
  /\ Word32(k)

NextRefill ==
  \/ SeedStart(1)
  \/ (calls[1] = 0 /\ SeedData(1, 4))
  \/ SeedFinish(1)
  \/ StreamInit(1, 1)
  \/ RefillLoad(1)
  \/ RefillCount(1)
  \/ RefillStep(1)
  \/ RefillReturn(1)
  \/ Take(1)

SpecRefill == InitStream /\ [][NextRefill]_vars

\* The step at word job[k].f.i of the refill for stream k is taken.
StepOf(k) == job[k].f.at = "steps" /\ job'[k].f.i = job[k].f.i + 1

\* The word index in the low ISAAC_LOG bits of v.
LowBitsIx(v) == v[2] % ISAAC_WORDS

\* The word index in the bits 2 .. ISAAC_LOG + 1 of v.
WordBitsIx(v) == (v[2] \div SIZEOF_UINT32) % ISAAC_WORDS

\* C11 as claimed: indirect lookup index.  In each refill step, with x the
\* old m[i] and y the new one, the new m[i] is mm[x mod 256] + a + b and the
\* emitted word is mm[(y >> 8) mod 256] + x.
C11_LowBitsIndex ==
  [][StepOf(1) =>
       LET i == job[1].f.i
           x == st[1].mm[i]
           y == st'[1].mm[i]
       IN  /\ y = Add32(Add32(st[1].mm[LowBitsIx(x)], job'[1].f.a), job[1].f.b)
           /\ rs'[1].r[i] = Add32(st'[1].mm[LowBitsIx(Shr32(y, ISAAC_LOG))], x)]_vars

\* C11 (amended): ind (mm, v) reads the word whose index is in the bits 2..9
\* of v, mm[(v >> 2) mod 256].  In each refill step the new m[i] is
\* mm[(x >> 2) mod 256] + a + b and the emitted word is
\* mm[(y >> 10) mod 256] + x, the lookup being made after m[i] is written.
C11_WordBitsIndex ==
  /\ [](\A v \in IndexProbes : ind(st[1].mm, v) = st[1].mm[WordBitsIx(v)])
  /\ [][StepOf(1) =>
          LET i == job[1].f.i
              x == st[1].mm[i]
              y == st'[1].mm[i]
          IN  /\ y = Add32(Add32(st[1].mm[WordBitsIx(x)], job'[1].f.a), job[1].f.b)
              /\ rs'[1].r[i] = Add32(st'[1].mm[WordBitsIx(Shr32(y, ISAAC_LOG))], x)
              /\ job'[1].f.b = rs'[1].r[i]]_vars

\* C11 witness: the steps of a refill of a seeded state are done, and the
\* word at the low bits of the last y differs from the word the lookup read.
C11_Witness ==
  /\ job[1].f.at = "store" /\ phase[1] = "seeded"
  /\ st[1].mm[LowBitsIx(Shr32(st[1].mm[ISAAC_WORDS - 1], ISAAC_LOG))]
       # st[1].mm[WordBitsIx(Shr32(st[1].mm[ISAAC_WORDS - 1], ISAAC_LOG))]

\* The shift of a at word i, by the position of i in its group of four.
ShiftCycle(a, i) ==
  IF i % 4 = 0 THEN Shl32(a, 13)
  ELSE IF i % 4 = 1 THEN Shr32(a, 6)
  ELSE IF i % 4 = 2 THEN Shl32(a, 2)
  ELSE Shr32(a, 16)

\* C12: one refill is one full pass.  The steps visit the words 0..255 in
\* ascending order; the step at i writes mm[i] and r[i] and no other word,
\* r[i] being the new b; a is mixed with its shift in the cycle << 13, >> 6,
\* << 2, >> 16 by i mod 4 and the partner word added: mm[i + 128], still
\* holding its value from before the refill, for i < 128, and mm[i - 128],
\* already rewritten, for i >= 128; s->a and s->b keep their values until
\* they are stored once at the end; the result is that of isaac_refill.
C12_FullPass ==
  /\ [](job[1].f.at \in {"steps", "store"} =>
          /\ job[1].f.i \in 0..ISAAC_WORDS
          /\ (job[1].f.at = "store" <=> job[1].f.i = ISAAC_WORDS)
          /\ \A j \in WordIx : j >= job[1].f.i => st[1].mm[j] = job[1].s0.mm[j]
          /\ st[1].a = job[1].s0.a /\ st[1].b = job[1].s0.b)
  /\ [][(job[1].f.at = "loaded" /\ job'[1].f.at # "loaded") =>
          (job'[1].f.at = "steps" /\ job'[1].f.i = 0)]_vars
  /\ [][(job[1].f.at = "steps" /\ job'[1] # job[1]) => StepOf(1)]_vars
  /\ [][StepOf(1) =>
          LET i == job[1].f.i
              a == job[1].f.a
          IN  /\ \A j \in WordIx \ {i} :
                    st'[1].mm[j] = st[1].mm[j] /\ rs'[1].r[j] = rs[1].r[j]
              /\ rs'[1].r[i] = job'[1].f.b
              /\ job'[1].f.a =
                    Add32(Xor32(a, ShiftCycle(a, i)),
                          IF i < ISAAC_WORDS \div 2
                          THEN job[1].s0.mm[i + ISAAC_WORDS \div 2]
                          ELSE st[1].mm[i - ISAAC_WORDS \div 2])
              /\ [st'[1] EXCEPT !.mm = st[1].mm] = st[1]]_vars
  /\ [][(job[1].f.at = "store" /\ job'[1].f.at = "idle") =>
          /\ st'[1] = [st[1] EXCEPT !.a = job[1].f.a, !.b = job[1].f.b]
          /\ st'[1] = isaac_refill(job[1].s0, rs[1].r).s
          /\ rs'[1].r = isaac_refill(job[1].s0, job[1].s0.mm).r
          /\ rs'[1].r = rs[1].r]_vars

\* C12 witness: the second refill of the stream is in its second loop, past
\* the first group of four.
C12_Witness ==
  /\ refills[1] = 1 /\ job[1].f.at = "steps"
  /\ job[1].f.i = ISAAC_WORDS \div 2 + 5
  /\ st[1].mm[5] # job[1].s0.mm[5]

\* ------------------------------------------------------------------------
\* Specification of two streams on one isaac_state, without locking: each
\* stream's irand32 refills once, statement by statement, and the statements
\* of the two calls interleave.
\* ------------------------------------------------------------------------

InitShared ==
  /\ endian = "little"
  /\ st = [g \in Gens |-> RawState(Zero32)]
  /\ rs = [k \in Streams |-> RawStream(Zero32)]
  /\ phase = [g \in Gens |-> "raw"]
  /\ input \in Inputs
  /\ fed = [g \in Gens |-> 0]
  /\ calls = [g \in Gens |-> 0]
  /\ InitStreamVars

\* Stream k may run a statement: the refill of the other stream is not
\* inside a run of StepChunk steps.
MayRun(k) ==
  \A o \in Streams \ {k} :
    job[o].f.at = "steps" => job[o].f.i % StepChunk = 0

NextShared ==
  \/ SeedStart(1)
  \/ (calls[1] = 0 /\ SeedData(1, 4))
  \/ SeedFinish(1)
  \/ StreamInit(1, 1)
  \/ (ready[1] /\ StreamInit(2, 1))
  \/ \E k \in Streams :
       /\ ready[1] /\ ready[2] /\ refills[k] = 0
       /\ MayRun(k)
       /\ (RefillLoad(k) \/ RefillCount(k) \/ RefillStep(k) \/ RefillReturn(k))

SpecShared == InitShared /\ [][NextShared]_vars

\* The state after two isaac_refill calls on s, one after the other.
SerialOutcome(s) == isaac_refill(isaac_refill(s, s.mm).s, s.mm).s

\* Both streams have refilled and no refill is in progress.
BothRefilled ==
  refills = <<1, 1>> /\ job[1].f.at = "idle" /\ job[2].f.at = "idle"

\* C19: no internal locking.  isaac_refill reads a, b and c at entry,
\* rewrites mm word by word and stores a and b at exit.  When the refills of
\* two streams on one state run one after the other, c advances by 2 and
\* the state is that of the serial order, each stream holding the block of
\* its refill; when their statements interleave c advances by 1 or by 2.
C19_SerialRefills ==
  /\ [](\A k \in Streams :
          job[k].f.at = "loaded" =>
            (job[k].f.a = job[k].s0.a /\ job[k].f.c = job[k].s0.c))
  /\ [](BothRefilled => st[1].c \in {U32(1), U32(2)})
  /\ [](\A k \in Streams :
          (BothRefilled /\ job[1].solo /\ job[2].solo /\ job[k].s0.c = Zero32) =>
             /\ st[1] = SerialOutcome(job[k].s0)
             /\ st[1].c = U32(2)
             /\ rs[k].r = isaac_refill(job[k].s0, rs[k].r).r
             /\ \A o \in Streams \ {k} :
                   /\ job[o].s0 = isaac_refill(job[k].s0, rs[k].r).s
                   /\ rs[o].r = isaac_refill(job[o].s0, rs[o].r).r)

\* C19 witness: the statements of the two refills interleaved, both have
\* returned, c advanced by 1 only and the state is not the one that the two
\* refills leave in a serial order.
C19_Witness ==
  /\ BothRefilled /\ ~job[1].solo /\ ~job[2].solo
  /\ st[1].c = U32(1)
  /\ job[1].s0.c = Zero32
  /\ st[1] # SerialOutcome(job[1].s0)

====
